---- MODULE Spec2Model ----
(***************************************************************************)
(* The Bessa lunch API client (custom_components/bessa_lunch/bessa_api.py) *)
(* as a state machine.  One client instance, one authenticated call in     *)
(* flight at a time.  Every action runs a coroutine from one await to the  *)
(* next: a response (or an exception) arrives, the handler runs, and it    *)
(* either sends the next request or finishes the call.                     *)
(***************************************************************************)
EXTENDS Integers, Sequences, FiniteSets, TLC

\* ---------------------------------------------------------------- bounds
\* Cap on the 401-triggered recursive calls inside one call (the code has none).
MaxDepth == 2
\* Longest chain of order pages the server serves.
MaxPages == 3

\* ------------------------------------------------------------ the values
\* Python's None (an absent token, a missing JSON field, a null link).
None == "<None>"
\* No HTTP status: the request or the parsing of its response raised.
EXC == 0

\* Values the login endpoint may put in "key": two proper tokens, a
\* whitespace-only string, the empty string, or no key at all.
LoginKeys == {"k1", "k2", " ", "", None}
LoginStatuses == {200, 201, 400, 500, EXC}
DataStatuses == {200, 401, 500, EXC}

\* The fields a 400 login body may hold, and the messages of each.
ErrorFields == {"non_field_errors", "email", "password", "detail"}
ErrorMessages(f) == CASE f = "non_field_errors" -> <<"n1", "n2">>
                      [] f = "email"            -> <<"e1">>
                      [] f = "password"         -> <<"p1", "p2">>
                      [] OTHER                  -> <<"d1">>

\* Orders are identified by their id; a page carries a list of them.
PageResults == {<<>>, <<1>>, <<2, 3>>}

\* The "date" field of each order, as a string of characters.
Date_0610_1130 == <<"2","0","2","5","-","0","6","-","1","0","T","1","1",":","3","0",":","0","0","Z">>
Date_0610_1215 == <<"2","0","2","5","-","0","6","-","1","0","T","1","2",":","1","5",":","0","0","Z">>
Date_0611_1130 == <<"2","0","2","5","-","0","6","-","1","1","T","1","1",":","3","0",":","0","0","Z">>
Date_0611 == <<"2","0","2","5","-","0","6","-","1","1">>
Date_Short == <<"2","0","2","5","-","0","6">>
Date_0610_T == <<"2","0","2","5","-","0","6","-","1","0","T">>
Date_0610_113 == <<"2","0","2","5","-","0","6","-","1","0","T","1","1",":","3">>
Date_0610_Minutes == <<"2","0","2","5","-","0","6","-","1","0","T","1","1",":","3","0">>
OrderDate(o) == CASE o = 1 -> Date_0610_1130
                  [] o = 8 -> Date_0610_T
                  [] o = 9 -> Date_0610_113
                  [] o = 10 -> Date_0610_Minutes
                  [] o = 2 -> Date_0610_1215
                  [] o = 4 -> Date_0610_1130
                  [] o = 5 -> Date_0611
                  [] o = 6 -> Date_Short
                  [] o = 7 -> <<>>
                  [] OTHER -> Date_0611_1130

\* The "states" of each order: the codes of its state history, latest first.
OrderStates(o) == CASE o = 1 -> <<9, 1>>
                    [] o = 2 -> <<5, 1>>
                    [] o = 4 -> <<>>
                    [] o = 5 -> <<1, 9>>
                    [] OTHER -> <<1>>

\* The orders a snapshot may hold.
Orders == 1..10

\* The "name" of each of the "items" of an order ("<None>": null).
OrderItems(o) == CASE o = 2 -> <<"Schnitzel", "", "Salad">>
                   [] o = 3 -> <<"", "">>
                   [] o = 5 -> <<>>
                   [] o = 8 -> <<"<None>", "Soup">>
                   [] o = 9 -> <<"<None>">>
                   [] OTHER -> <<"Schnitzel">>

\* The date arguments of get_order_for_date and get_menu (YYYY-MM-DD).
Day_0610 == <<"2","0","2","5","-","0","6","-","1","0">>
Day_0611 == <<"2","0","2","5","-","0","6","-","1","1">>
Days == {Day_0610, Day_0611}

\* JSON values of "available_amount", and the values of "available":
\* null, an integer, or a string (its characters).
JNull == [t |-> "null", v |-> 0, s |-> <<>>]
JInt(n) == [t |-> "int", v |-> n, s |-> <<>>]
JStr(cs) == [t |-> "str", v |-> 0, s |-> cs]

\* Menu responses: a list of categories, each with a name and its items;
\* an item has an id and an available_amount.
Item(i, amount) == [id |-> i, available_amount |-> amount]
Category(n, its) == [name |-> n, items |-> its]
Menu_Soup == <<Category("Soup", <<Item(11, JStr(<<"3">>))>>)>>
MenuBodies ==
    { <<>>,
      Menu_Soup,
      <<Category("Soup", <<Item(11, JNull)>>),
        Category("Main", <<Item(21, JInt(0)), Item(22, JStr(<<"a", "b", "c">>))>>)>>,
      <<Category("Main", <<Item(31, JInt(3)), Item(32, JStr(<<"0">>)), Item(33, JStr(<<>>))>>)>> }

VARIABLES
    token,       \* self._token
    pc,          \* "idle", or the await the call in flight is suspended at
    op,          \* the call in flight (or the last one finished)
    date,        \* its date argument
    depth,       \* how many recursive calls (401 retries) enclose the current frame
    sent,        \* the requests the call has sent, in order
    recv,        \* the responses it has received, in order
    all_orders,  \* get_today_orders' accumulator
    result,      \* how the last call ended
    logged,      \* the error message authenticate() logged in the call, if any
    today,       \* datetime.now().date(), in days since 2025-06-10
    cyc,         \* where _async_update_data is: "idle", "orders" or "menu"
    days_ahead,  \* its loop variable
    building,    \* its local dict "result"
    data,        \* coordinator.data, the published snapshot
    last_update, \* how the last refresh cycle ended
    fetched,     \* the fetches the cycle has started, in order
    started,     \* the date on which the cycle started
    outages,     \* how menu fetches of the cycle have failed softly so far
    cyclog,      \* what the cycle's finished fetches sent and got
    calls,       \* the calls in flight when two callers share the client
    service,     \* how the last cancel_order service call ended
    reading      \* what a sensor last read from the snapshot

clientVars == <<token, pc, op, date, depth, sent, recv, all_orders, result, logged>>
hostVars == <<today, cyc, days_ahead, building, data, last_update, fetched, started,
              outages, cyclog, calls, service, reading>>
vars == <<token, pc, op, date, depth, sent, recv, all_orders, result, logged,
          today, cyc, days_ahead, building, data, last_update, fetched, started,
          outages, cyclog, calls, service, reading>>

\* --------------------------------------------------------------- helpers
\* Truth value of a str | None.
Truthy(v) == v # None /\ v # ""

Last(s) == s[Len(s)]

Req(kind, tok, url) == [kind |-> kind, tok |-> tok, url |-> url]
Resp(status, key, results, next) ==
    [status |-> status, key |-> key, results |-> results, next |-> next]

LoginReq == Req("login", None, 0)
\* A login response: its status, the "key" of its body and, for a 400, the
\* error fields present in its body.
LoginResp(status, key, errs) ==
    [status |-> status, key |-> key, results |-> <<>>, next |-> 0, errors |-> errs]

\* The data request of each call, with the Authorization header's token.
DataKind(o) == CASE o = "get_today_orders"   -> "orders"
                 [] o = "get_order_for_date" -> "orders_all"
                 [] OTHER                    -> "menu"
DataReq(o, tok) == Req(DataKind(o), tok, 1)

\* Results of a call: a returned dict (its keys and values), a returned
\* bool, or a raised exception.
NoResult == [kind |-> "none", ok |-> FALSE, keys |-> {},
             orders |-> <<>>, categories |-> <<>>, items |-> <<>>]
ReturnBool(b) == [NoResult EXCEPT !.kind = "return", !.ok = b]
ReturnOrders(os) == [NoResult EXCEPT !.kind = "return", !.keys = {"orders"}, !.orders = os]
ReturnEmptyDict == [NoResult EXCEPT !.kind = "return"]
ReturnMenu(cats, its) ==
    [NoResult EXCEPT !.kind = "return", !.keys = {"categories", "items", "raw_data"},
                     !.categories = cats, !.items = its]
ReturnEmptyMenu ==
    [NoResult EXCEPT !.kind = "return", !.keys = {"categories", "items"}]
Raise(exc) == [NoResult EXCEPT !.kind = exc]


\* ------------------------------------------------------ pure decisions
\* Mutant of Authenticate: only status 200 counts as a successful login.
Authenticate_Only200(st, key, tok) ==
    IF st = 200
      THEN [ok |-> Truthy(key), token |-> key]
      ELSE [ok |-> FALSE, token |-> tok]

\* authenticate(): its return value and the token it leaves stored, for a
\* login response of status st whose body has "key" = key (None: no key).
\* An exception anywhere (EXC) is caught and yields False.
Authenticate(st, key, tok) ==
    IF st = 200 \/ st = 201
      THEN [ok |-> Truthy(key), token |-> key]
      ELSE [ok |-> FALSE, token |-> tok]

\* ", ".join(msgs), as the list of the pieces of the joined string.
RECURSIVE Join(_)
Join(msgs) ==
    IF msgs = <<>> THEN <<>>
    ELSE IF Len(msgs) = 1 THEN msgs
    ELSE <<Head(msgs), ", ">> \o Join(Tail(msgs))

\* str(error_data) of a body with none of the three known fields.
StrOf(error_data) == IF "detail" \in error_data THEN "{'detail': ['d1']}" ELSE "{}"

\* Mutant of LoginErrorMsg: the email test comes after the password test.
LoginErrorMsg_PasswordFirst(error_data) ==
    <<"Login failed: ">> \o
      (IF "non_field_errors" \in error_data THEN Join(ErrorMessages("non_field_errors"))
       ELSE IF "password" \in error_data THEN Join(ErrorMessages("password"))
       ELSE IF "email" \in error_data THEN Join(ErrorMessages("email"))
       ELSE <<StrOf(error_data)>>)

\* The error message of the 400 branch, for the fields present in the body.
LoginErrorMsg(error_data) ==
    <<"Login failed: ">> \o
      (IF "non_field_errors" \in error_data THEN Join(ErrorMessages("non_field_errors"))
       ELSE IF "email" \in error_data THEN Join(ErrorMessages("email"))
       ELSE IF "password" \in error_data THEN Join(ErrorMessages("password"))
       ELSE <<StrOf(error_data)>>)

\* What authenticate() logs at error level (<<>>: nothing).
AuthLog(st, key, error_data) ==
    IF st = 200 \/ st = 201
      THEN (IF Truthy(key) THEN <<>> ELSE <<"No token in response">>)
    ELSE IF st = 400 THEN LoginErrorMsg(error_data)
    ELSE IF st = EXC THEN <<"Authentication error: ">>
    ELSE <<"Authentication failed with status ", "Response: ">>

\* Mutant of TokenOn401: the 401 branch forgets to reset the token.
TokenOn401_Kept(tok) == tok

\* "Token expired": what the 401 branch stores in self._token.
TokenOn401(tok) == None

\* Mutant of Entry: the call logs in whether or not it holds a token.
Entry_AlwaysLogin(o, tok, log) == [pc |-> "login", sent |-> Append(log, LoginReq)]

\* The first statement of an authenticated call ("Ensure we're
\* authenticated"): with no token held the call awaits authenticate(), which
\* posts the login; otherwise it sends its data request with the held token.
Entry(o, tok, log) ==
    IF ~Truthy(tok)
      THEN [pc |-> "login", sent |-> Append(log, LoginReq)]
      ELSE [pc |-> "data", sent |-> Append(log, DataReq(o, tok))]

\* Mutant of AuthFailed: get_today_orders' handler swallows the error of a
\* recursive frame as get_menu's does.
AuthFailed_Swallowed(o, d) ==
    IF d > 0
      THEN (IF o = "get_menu" THEN ReturnEmptyMenu ELSE ReturnOrders(<<>>))
      ELSE Raise("AuthenticationError")

\* authenticate() returned False: AuthenticationError is raised before the
\* try block of the frame.  At depth 0 it reaches the caller.  In a
\* recursive frame it is raised inside the try block of the enclosing
\* frame: get_today_orders logs and re-raises it, get_menu's handler
\* swallows it and returns the empty menu.
AuthFailed(o, d) ==
    IF o = "get_menu" /\ d > 0
      THEN ReturnEmptyMenu
      ELSE Raise("AuthenticationError")

\* Mutant of DataException: get_menu re-raises as the order calls do.
DataException_Raised(o) == Raise("Exception")

\* Mutant of DataException: the order calls return an empty list instead
\* of re-raising.
DataException_Swallowed(o) ==
    IF o = "get_menu" THEN ReturnEmptyMenu ELSE ReturnOrders(<<>>)

\* An exception raised by the data request or by parsing its response.
DataException(o) ==
    IF o = "get_menu" THEN ReturnEmptyMenu ELSE Raise("Exception")

\* Mutant of OtherStatus: an unexpected status is raised as an error.
OtherStatus_Raised(o) == Raise("Exception")

\* The "else" branch of the status tests: neither 200 nor (where the call
\* tests for it) 401.
OtherStatus(o) ==
    CASE o = "get_today_orders"   -> ReturnOrders(<<>>)
      [] o = "get_order_for_date" -> ReturnEmptyDict
      [] OTHER                    -> ReturnEmptyMenu

\* Mutant of PageStep: the page replaces the list instead of extending it.
PageStep_Overwrite(acc, st, rs, nx) ==
    IF st = 200
      THEN [all_orders |-> rs, next_url |-> nx]
      ELSE [all_orders |-> acc, next_url |-> 0]

\* One turn of the pagination loop on the response to a page request:
\* 200 appends the page and takes its next link, anything else breaks.
PageStep(acc, st, rs, nx) ==
    IF st = 200
      THEN [all_orders |-> acc \o rs, next_url |-> nx]
      ELSE [all_orders |-> acc, next_url |-> 0]

\* Mutant of Take: the whole string is compared.
Take_All(s, n) == s

\* s[:n]
Take(s, n) == SubSeq(s, 1, IF Len(s) < n THEN Len(s) ELSE n)

\* _is_order_for_date: the first 10 characters of the order's date.
is_order_for_date(o, date_str) ==
    LET order_date == OrderDate(o) IN
    IF order_date # <<>> THEN Take(order_date, 10) = date_str ELSE FALSE

DateOrders(os, d) == SelectSeq(os, LAMBDA o : is_order_for_date(o, d))

\* Truth value of a JSON value: null, 0 and "" are false.
TruthyValue(x) ==
    CASE x.t = "null" -> FALSE
      [] x.t = "int"  -> x.v # 0
      [] OTHER        -> x.s # <<>>

Digits == <<"0", "1", "2", "3", "4", "5", "6", "7", "8", "9">>
IsDigit(c) == \E d \in 1..10 : Digits[d] = c
DigitValue(c) == (CHOOSE d \in 1..10 : Digits[d] = c) - 1
IsSpace(c) == c = " "

\* str.strip() of a string of characters.
RECURSIVE LStrip(_)
LStrip(cs) == IF cs # <<>> /\ IsSpace(Head(cs)) THEN LStrip(Tail(cs)) ELSE cs
RECURSIVE RStrip(_)
RStrip(cs) ==
    IF cs # <<>> /\ IsSpace(cs[Len(cs)]) THEN RStrip(SubSeq(cs, 1, Len(cs) - 1)) ELSE cs

\* The value of a string of decimal digits.
RECURSIVE DecimalValue(_)
DecimalValue(cs) ==
    IF cs = <<>> THEN 0
    ELSE 10 * DecimalValue(SubSeq(cs, 1, Len(cs) - 1)) + DigitValue(cs[Len(cs)])

\* int(x): the integer itself; for a string, surrounding whitespace and a
\* sign are accepted around a non-empty run of digits; anything else raises
\* ValueError or TypeError, which the caller turns into None.
IntOf(x) ==
    IF x.t = "int" THEN JInt(x.v)
    ELSE IF x.t = "null" THEN JNull
    ELSE LET body == RStrip(LStrip(x.s))
             signed == body # <<>> /\ Head(body) \in {"+", "-"}
             digits == IF signed THEN Tail(body) ELSE body
         IN IF digits # <<>> /\ \A i \in 1..Len(digits) : IsDigit(digits[i])
              THEN JInt(IF signed /\ Head(body) = "-"
                         THEN 0 - DecimalValue(digits) ELSE DecimalValue(digits))
              ELSE JNull

\* The "available" of an item: None unless available_amount is truthy and
\* int() accepts it.
Available(available_amount) ==
    IF TruthyValue(available_amount) THEN IntOf(available_amount) ELSE JNull

\* get_menu's flattening of the categories into one item list.
RECURSIVE CategoryItems(_, _)
CategoryItems(its, name) ==
    IF its = <<>> THEN <<>>
    ELSE <<[id |-> Head(its).id,
            available |-> Available(Head(its).available_amount),
            category |-> name]>> \o CategoryItems(Tail(its), name)

\* Mutant of MenuItems: the categories are taken last to first.
RECURSIVE MenuItems_Reversed(_)
MenuItems_Reversed(results) ==
    IF results = <<>> THEN <<>>
    ELSE MenuItems_Reversed(Tail(results))
           \o CategoryItems(Head(results).items, Head(results).name)

RECURSIVE MenuItems(_)
MenuItems(results) ==
    IF results = <<>> THEN <<>>
    ELSE CategoryItems(Head(results).items, Head(results).name) \o MenuItems(Tail(results))

\* ------------------------------------------------------ the snapshot
\* strftime("%Y-%m-%d") of the date n days after 2025-06-10 (within June).
TwoDigits(n) == <<Digits[(n \div 10) + 1], Digits[(n % 10) + 1]>>
DateStr(n) == <<"2","0","2","5","-","0","6","-">> \o TwoDigits(10 + n)

\* coordinator.data: None until the first successful refresh, then a dict
\* with "orders" and the "menu_<date>" keys in insertion order.
NoData == [present |-> FALSE, orders |-> <<>>, menus |-> <<>>]
Snapshot(os, ms) == [present |-> TRUE, orders |-> os, menus |-> ms]

\* result[f"menu_{target_date}"] = items: an existing key keeps its place.
SetMenu(ms, d, its) ==
    IF \E i \in 1..Len(ms) : ms[i].date = d
      THEN [i \in 1..Len(ms) |-> IF ms[i].date = d THEN [date |-> d, items |-> its] ELSE ms[i]]
      ELSE Append(ms, [date |-> d, items |-> its])

\* ------------------------------------------------- the day projection
\* _get_target_date: today plus the sensor's offset, as YYYY-MM-DD.
get_target_date(now, n) == DateStr(now + n)

\* order.get("date", "")[:10] == target_date
order_date_matches(o, target_date) == Take(OrderDate(o), 10) = target_date

\* Mutant of latest_state_ok: the oldest state entry is tested.
latest_state_ok_Oldest(o) ==
    LET states == OrderStates(o) IN states # <<>> /\ states[Len(states)] # 9

\* states and states[0].get("state") != 9
latest_state_ok(o) ==
    LET states == OrderStates(o) IN states # <<>> /\ states[1] # 9

\* Mutant of ScanOrders: the last matching order wins.
RECURSIVE ScanOrders_Last(_, _, _)
ScanOrders_Last(orders, target_date, k) ==
    IF k > Len(orders) THEN 0
    ELSE LET later == ScanOrders_Last(orders, target_date, k + 1) IN
         IF later # 0 THEN later
         ELSE IF order_date_matches(orders[k], target_date) /\ latest_state_ok(orders[k])
           THEN k ELSE 0

\* The loop of _get_order_for_day from position k on: the position of the
\* order it returns, 0 when it falls through to "return None".
RECURSIVE ScanOrders(_, _, _)
ScanOrders(orders, target_date, k) ==
    IF k > Len(orders) THEN 0
    ELSE IF order_date_matches(orders[k], target_date) /\ latest_state_ok(orders[k])
      THEN k
    ELSE ScanOrders(orders, target_date, k + 1)

NoOrder == [found |-> FALSE, index |-> 0, order |-> 0]

\* _get_order_for_day of the sensor with offset n, read on day now.
get_order_for_day(snap, now, n) ==
    IF ~snap.present THEN NoOrder
    ELSE LET k == ScanOrders(snap.orders, get_target_date(now, n), 1) IN
         IF k = 0 THEN NoOrder
         ELSE [found |-> TRUE, index |-> k, order |-> snap.orders[k]]

\* Mutant of sensor_state: empty names are joined like the others.
sensor_state_Unfiltered(order) ==
    IF ~order.found THEN <<"No order">>
    ELSE LET items == OrderItems(order.order)
             joined == Join(items)
         IN IF items # <<>> /\ joined # <<>> THEN joined ELSE <<"Ordered">>

\* BessaLunchDailyOrderSensor.state for the order of the day: the pieces of
\* the string it returns.
sensor_state(order) ==
    IF ~order.found THEN <<"No order">>
    ELSE LET items == OrderItems(order.order)
             joined == Join(SelectSeq(items, Truthy))
         IN IF items # <<>>
              THEN (IF joined # <<>> THEN joined ELSE <<"Ordered">>)
              ELSE <<"Ordered">>

\* s[a:b]
Slice(s, a, b) == SubSeq(s, a + 1, IF Len(s) < b THEN Len(s) ELSE b)

NoTime == [some |-> FALSE, chars |-> <<>>]

\* Mutant of pickup_time: the slice starts one character early.
pickup_time_Early(order_date) ==
    IF Len(order_date) > 11
      THEN [some |-> TRUE, chars |-> Slice(order_date, 10, 15)]
      ELSE NoTime

\* order_date[11:16] if len(order_date) > 11 else None
pickup_time(order_date) ==
    IF Len(order_date) > 11
      THEN [some |-> TRUE, chars |-> Slice(order_date, 11, 16)]
      ELSE NoTime

\* str(n) of a natural number.
RECURSIVE StrInt(_)
StrInt(n) ==
    IF n < 10 THEN <<Digits[n + 1]>>
    ELSE StrInt(n \div 10) \o <<Digits[(n % 10) + 1]>>

\* _get_state_name of a state code (JNull: no code): the pieces of the
\* string it returns.
get_state_name(state) ==
    IF state = JInt(4) THEN <<"Ordered">>
    ELSE IF state = JInt(5) THEN <<"Confirmed">>
    ELSE IF state = JInt(9) THEN <<"Cancelled">>
    ELSE IF TruthyValue(state) THEN <<"State ">> \o StrInt(state.v)
    ELSE <<"Unknown">>

\* BessaAPIClient._is_cancelled
is_cancelled(o) ==
    LET states == OrderStates(o) IN
    IF states # <<>> THEN states[1] = 9 ELSE FALSE

NoReading == [kind |-> "none", days_ahead |-> 0, order |-> NoOrder, orders |-> <<>>,
              state |-> <<>>, pickup_time |-> NoTime, code |-> JNull, state_name |-> <<>>]

\* What the order sensor of offset n shows on day now: its state and, for
\* an order of the day, the pickup time and the name of the latest state.
SensorReading(snap, now, n) ==
    LET order == get_order_for_day(snap, now, n)
        code == IF order.found THEN JInt(OrderStates(order.order)[1]) ELSE JNull
    IN [kind |-> "sensor", days_ahead |-> n, order |-> order, orders |-> <<>>,
        state |-> sensor_state(order),
        pickup_time |-> IF order.found THEN pickup_time(OrderDate(order.order)) ELSE NoTime,
        code |-> code,
        state_name |-> IF order.found THEN get_state_name(code) ELSE <<>>]

\* ------------------------------------------------------------ the state
\* The callers that share the client when calls interleave.
Procs == {1, 2}
NoCall == [pc |-> "idle", op |-> "none", depth |-> 0, sent_with |-> None,
           for401 |-> "-", cleared |-> "-"]
NoCalls == [p \in Procs |-> NoCall]

\* Nothing fetched yet in the cycle.
NoLog == [logins |-> 0, got401 |-> FALSE, orders |-> "pending", previous |-> <<>>]

\* Nothing of the host has happened yet.
HostInit ==
    /\ today = 0
    /\ cyc = "idle"
    /\ days_ahead = 0
    /\ building = NoData
    /\ data = NoData
    /\ last_update = "none"
    /\ fetched = <<>>
    /\ started = 0
    /\ outages = {}
    /\ cyclog = NoLog
    /\ calls = NoCalls
    /\ service = "none"
    /\ reading = NoReading

ClientInit ==
    /\ token = None
    /\ pc = "idle"
    /\ op = "none"
    /\ date = None
    /\ depth = 0
    /\ sent = <<>>
    /\ recv = <<>>
    /\ all_orders = <<>>
    /\ result = NoResult
    /\ logged = <<>>

Init == ClientInit /\ HostInit

\* The call in flight ends: it returns r or raises r to its caller.
Finish(r) == pc' = "idle" /\ result' = r

\* The 401 branch of get_today_orders and get_menu: the token is replaced
\* and the call calls itself, which runs its first statement again.
Retry401 ==
    /\ token' = TokenOn401(token)
    /\ depth' = depth + 1
    /\ LET e == Entry(op, token', sent) IN pc' = e.pc /\ sent' = e.sent
    /\ UNCHANGED result

\* ------------------------------------------------------------ the calls
\* await api_client.authenticate(), up to the await of the login response.
CallAuthenticate ==
    /\ pc = "idle"
    /\ op' = "authenticate" /\ date' = None /\ depth' = 0
    /\ pc' = "login" /\ sent' = <<LoginReq>>
    /\ recv' = <<>> /\ all_orders' = <<>> /\ result' = NoResult
    /\ logged' = <<>>
    /\ UNCHANGED <<token, hostVars>>

\* An authenticated call, up to its first await.
CallAuthed(o, d) ==
    /\ pc = "idle"
    /\ op' = o /\ date' = d /\ depth' = 0
    /\ LET e == Entry(o, token, <<>>) IN pc' = e.pc /\ sent' = e.sent
    /\ recv' = <<>> /\ all_orders' = <<>> /\ result' = NoResult
    /\ logged' = <<>>
    /\ UNCHANGED token

CallGetTodayOrders == CallAuthed("get_today_orders", None) /\ UNCHANGED hostVars
CallGetOrderForDate ==
    /\ \E d \in Days : CallAuthed("get_order_for_date", d)
    /\ UNCHANGED hostVars
CallGetMenu ==
    /\ \E d \in Days : CallAuthed("get_menu", d)
    /\ UNCHANGED hostVars

\* ------------------------------------------------------ the responses
\* The login responses: any when the client is called on its own; during a
\* refresh cycle the login is accepted with the key "k1" or refused.
LoginsServed == IF cyc = "idle" THEN LoginStatuses ELSE {200, 500}
KeysServed == IF cyc = "idle" THEN LoginKeys ELSE {"k1"}

\* The login response arrives: authenticate() finishes, and the call that
\* awaited it goes on with its data request or raises.
LoginResponse ==
    /\ pc = "login"
    /\ \E st \in LoginsServed :
       \E key \in (IF st = 200 \/ st = 201 THEN KeysServed ELSE {None}) :
       \E errs \in (IF st = 400 THEN SUBSET ErrorFields ELSE {{}}) :
         LET a == Authenticate(st, key, token) IN
         /\ recv' = Append(recv, LoginResp(st, key, errs))
         /\ token' = a.token
         /\ logged' = AuthLog(st, key, errs)
         /\ IF op = "authenticate"
              THEN Finish(ReturnBool(a.ok)) /\ UNCHANGED sent
            ELSE IF a.ok
              THEN /\ pc' = "data"
                   /\ sent' = Append(sent, DataReq(op, token'))
                   /\ UNCHANGED result
            ELSE Finish(AuthFailed(op, depth)) /\ UNCHANGED sent
    /\ UNCHANGED <<op, date, depth, all_orders, hostVars>>

\* What the server holds while a refresh cycle runs: one page of orders,
\* and a menu for the first two days only.
ServerOrders == <<2, 3>>
ServerMenu(d) == IF d \in Days THEN Menu_Soup ELSE <<>>

\* The bodies of the 200 responses: anything when the client is called on
\* its own, the server's content during a refresh cycle.
PagesServed == IF cyc = "idle" THEN PageResults ELSE {ServerOrders}
MenusServed(d) == IF cyc = "idle" THEN MenuBodies ELSE {ServerMenu(d)}

\* Statuses the server answers a data request with; 401 only while the
\* recursion is below the model's cap, and during a refresh cycle only to
\* the first request of a call.
DataStatusesAt(d) ==
    IF d < MaxDepth /\ (cyc = "idle" \/ d = 0) THEN DataStatuses ELSE DataStatuses \ {401}
\* The next link of page p: null (0) or the following page.
NextLinks(p) == IF p < MaxPages /\ cyc = "idle" THEN {0, p + 1} ELSE {0}

\* After a 200 page: fetch the next page with the same headers, or return.
Paginate(acc, next_url) ==
    /\ all_orders' = acc
    /\ IF next_url # 0
         THEN /\ pc' = "page"
              /\ sent' = Append(sent, Req("orders_page", Last(sent).tok, next_url))
              /\ UNCHANGED result
         ELSE Finish(ReturnOrders(acc)) /\ UNCHANGED sent

\* get_today_orders: the response to the first orders request.
OrdersResponse ==
    /\ pc = "data" /\ op = "get_today_orders"
    /\ \E st \in DataStatusesAt(depth) :
       \E rs \in (IF st = 200 THEN PagesServed ELSE {<<>>}) :
       \E nx \in (IF st = 200 THEN NextLinks(1) ELSE {0}) :
         /\ recv' = Append(recv, Resp(st, None, rs, nx))
         /\ CASE st = 200 -> Paginate(rs, nx) /\ UNCHANGED <<token, depth>>
              [] st = 401 -> Retry401 /\ UNCHANGED all_orders
              [] st = EXC -> /\ Finish(DataException(op))
                             /\ UNCHANGED <<token, depth, sent, all_orders>>
              [] OTHER    -> /\ Finish(OtherStatus(op))
                             /\ UNCHANGED <<token, depth, sent, all_orders>>
    /\ UNCHANGED <<op, date, logged, hostVars>>

\* get_today_orders: the response to a follow-up page request.
OrdersPageResponse ==
    /\ pc = "page"
    /\ \E st \in DataStatuses :
       \E rs \in (IF st = 200 THEN PageResults ELSE {<<>>}) :
       \E nx \in (IF st = 200 THEN NextLinks(Last(sent).url) ELSE {0}) :
         /\ recv' = Append(recv, Resp(st, None, rs, nx))
         /\ IF st = EXC
              THEN Finish(DataException(op)) /\ UNCHANGED <<sent, all_orders>>
              ELSE LET step == PageStep(all_orders, st, rs, nx) IN
                   Paginate(step.all_orders, step.next_url)
    /\ UNCHANGED <<token, op, date, depth, logged, hostVars>>

\* get_order_for_date: the response to its orders request.
OrderForDateResponse ==
    /\ pc = "data" /\ op = "get_order_for_date"
    /\ \E st \in DataStatuses :
       \E rs \in (IF st = 200 THEN PageResults ELSE {<<>>}) :
         /\ recv' = Append(recv, Resp(st, None, rs, 0))
         /\ CASE st = 200 -> Finish(ReturnOrders(DateOrders(rs, date)))
              [] st = EXC -> Finish(DataException(op))
              [] OTHER    -> Finish(OtherStatus(op))
    /\ UNCHANGED <<token, op, date, depth, sent, all_orders, logged, hostVars>>

\* get_menu: the response to its menu request.
MenuResponse ==
    /\ pc = "data" /\ op = "get_menu"
    /\ \E st \in DataStatusesAt(depth) :
       \E rs \in (IF st = 200 THEN MenusServed(date) ELSE {<<>>}) :
         /\ recv' = Append(recv, Resp(st, None, rs, 0))
         /\ CASE st = 200 -> /\ Finish(ReturnMenu(rs, MenuItems(rs)))
                             /\ UNCHANGED <<token, depth, sent>>
              [] st = 401 -> Retry401
              [] st = EXC -> /\ Finish(DataException(op))
                             /\ UNCHANGED <<token, depth, sent>>
              [] OTHER    -> /\ Finish(OtherStatus(op))
                             /\ UNCHANGED <<token, depth, sent>>
    /\ UNCHANGED <<op, date, all_orders, logged, hostVars>>

Next ==
    \/ CallAuthenticate
    \/ CallGetTodayOrders
    \/ CallGetOrderForDate
    \/ CallGetMenu
    \/ LoginResponse
    \/ OrdersResponse
    \/ OrdersPageResponse
    \/ OrderForDateResponse
    \/ MenuResponse

Spec == Init /\ [][Next]_vars

\* ------------------------------------------- reading the day projection
\* The longest order list of the snapshots the sensors are read on.
MaxOrders == 2
\* range(7): the offsets of the daily sensors and of the menu fetches.
NumDays == 7
Offsets == 0..(NumDays - 1)
SensorDays == {0, 1}

SeqsUpTo(S, n) == UNION {[1..k -> S] : k \in 0..n}

\* The seven menu entries of a snapshot of a cycle run on day d.
EmptyMenus(d) == [i \in 1..NumDays |-> [date |-> DateStr(d + i - 1), items |-> <<>>]]

\* Any published snapshot, or none yet, on either day.
SensorInit ==
    /\ ClientInit
    /\ today \in SensorDays
    /\ data \in {NoData} \cup {Snapshot(os, EmptyMenus(today)) : os \in SeqsUpTo(Orders, MaxOrders)}
    /\ cyc = "idle"
    /\ days_ahead = 0
    /\ building = NoData
    /\ last_update = "none"
    /\ fetched = <<>>
    /\ started = 0
    /\ outages = {}
    /\ cyclog = NoLog
    /\ calls = NoCalls
    /\ service = "none"
    /\ reading = NoReading

\* The order sensor of some offset reads its order of the day.
SensorRead ==
    /\ \E n \in Offsets :
         reading' = SensorReading(data, today, n)
    /\ UNCHANGED <<clientVars, today, cyc, days_ahead, building, data, last_update,
                   fetched, started, outages, cyclog, calls, service>>

\* get_order_for_date's filter applied to the orders of the snapshot:
\* [order for order in results if self._is_order_for_date(order, date_str)]
FilterRead ==
    /\ data.present
    /\ \E n \in Offsets :
         reading' = [NoReading EXCEPT !.kind = "filter", !.days_ahead = n,
                                      !.orders = DateOrders(data.orders, DateStr(today + n))]
    /\ UNCHANGED <<clientVars, today, cyc, days_ahead, building, data, last_update,
                   fetched, started, outages, cyclog, calls, service>>

\* The state codes _get_state_name is called with: none, or a number.
MaxCode == 14
StateCodes == {JNull} \cup {JInt(n) : n \in 0..MaxCode}

\* _get_state_name applied to a state code.
StateNameRead ==
    /\ \E c \in StateCodes :
         reading' = [NoReading EXCEPT !.kind = "state_name", !.code = c,
                                      !.state_name = get_state_name(c)]
    /\ UNCHANGED <<clientVars, today, cyc, days_ahead, building, data, last_update,
                   fetched, started, outages, cyclog, calls, service>>

SensorNext ==
    \/ SensorRead
    \/ FilterRead
    \/ StateNameRead

SpecSensor == SensorInit /\ [][SensorNext]_vars

\* ------------------------------------------------- the refresh cycle
\* How often midnight may pass during one cycle.
MaxTicks == 1

\* The snapshot published by an earlier cycle of the same day.
PreviousSnapshot == Snapshot(<<2>>, EmptyMenus(0))

\* The first refresh of a fresh client, or a later one with the token and
\* the snapshot of an earlier cycle.
CycleInit ==
    /\ \/ token = None /\ data = NoData
       \/ token = "k1" /\ data = PreviousSnapshot
    /\ pc = "idle" /\ op = "none" /\ date = None /\ depth = 0
    /\ sent = <<>> /\ recv = <<>> /\ all_orders = <<>>
    /\ result = NoResult /\ logged = <<>>
    /\ today = 0
    /\ cyc = "idle"
    /\ days_ahead = 0
    /\ building = NoData
    /\ last_update = "none"
    /\ fetched = <<>>
    /\ started = 0
    /\ outages = {}
    /\ cyclog = NoLog
    /\ calls = NoCalls
    /\ service = "none"
    /\ reading = NoReading

\* How the menu fetch that has just ended failed softly, if it did: its
\* last response answered the menu request with an exception or with a
\* status other than 200 and 401.
Outage ==
    IF sent[Len(recv)].kind # "menu" \/ recv[Len(recv)].status \in {200, 401} THEN {}
    ELSE IF recv[Len(recv)].status = EXC THEN {"exception"}
    ELSE {"status"}

\* The cycle's log after the fetch that has just ended: the login requests
\* sent so far, counted up to the end of the first fetch that got a 401.
Tally(log) ==
    IF log.got401 THEN log
    ELSE [log EXCEPT
            !.logins = @ + Cardinality({i \in 1..Len(sent) : sent[i].kind = "login"}),
            !.got401 = \E i \in 1..Len(recv) : sent[i].kind # "login" /\ recv[i].status = 401]

\* The response that ended get_today_orders(): a login response, or an
\* orders response that was an exception, a 200, a 401, or of another
\* status ("soft").
OrdersOutcome ==
    IF sent[Len(recv)].kind = "login" THEN "login"
    ELSE IF recv[Len(recv)].status = EXC THEN "exception"
    ELSE IF recv[Len(recv)].status = 200 THEN "200"
    ELSE IF recv[Len(recv)].status = 401 THEN "401"
    ELSE "soft"

\* _async_update_data, up to the first await of get_today_orders().
CycleStart ==
    /\ cyc = "idle" /\ last_update = "none"
    /\ cyc' = "orders" /\ started' = today
    /\ building' = NoData /\ days_ahead' = 0
    /\ fetched' = <<[kind |-> "orders", date |-> <<>>]>>
    /\ outages' = {}
    /\ CallAuthed("get_today_orders", None)
    /\ cyclog' = [NoLog EXCEPT !.previous = data.orders]
    /\ UNCHANGED <<today, data, last_update, calls, service, reading>>

\* One turn of the loop up to its await: the target date is computed from
\* the clock as it stands now, and get_menu(target_date) is called.
StartMenu(n) ==
    LET target_date == DateStr(today + n) IN
    /\ cyc' = "menu" /\ days_ahead' = n
    /\ fetched' = Append(fetched, [kind |-> "menu", date |-> target_date])
    /\ CallAuthed("get_menu", target_date)
    /\ UNCHANGED <<data, last_update>>

\* Mutant of UpdateFailed: what has been assembled so far is published.
UpdateFailed_Partial ==
    /\ cyc' = "idle" /\ last_update' = "UpdateFailed"
    /\ building' = building /\ data' = building
    /\ UNCHANGED <<clientVars, days_ahead, fetched>>

\* except Exception as err: raise UpdateFailed(...).  The host keeps the
\* data it has.
UpdateFailed ==
    /\ cyc' = "idle" /\ last_update' = "UpdateFailed"
    /\ building' = NoData
    /\ UNCHANGED <<clientVars, data, days_ahead, fetched>>

\* get_today_orders() has ended: result = orders_data.copy() and the first
\* turn of the loop, or the exception it raised.
CycleOrdersDone ==
    /\ cyc = "orders" /\ pc = "idle"
    /\ IF result.kind = "return"
         THEN building' = Snapshot(result.orders, <<>>) /\ StartMenu(0)
         ELSE UpdateFailed
    /\ cyclog' = [Tally(cyclog) EXCEPT !.orders = OrdersOutcome]
    /\ UNCHANGED <<today, started, outages, calls, service, reading>>

\* get_menu() has ended: its items are stored under menu_<target_date>,
\* then the next turn of the loop, or "return result", which the host
\* publishes as coordinator.data.
CycleMenuDone ==
    /\ cyc = "menu" /\ pc = "idle"
    /\ IF result.kind = "return"
         THEN LET r == [building EXCEPT !.menus = SetMenu(building.menus, date, result.items)] IN
              /\ building' = r
              /\ IF days_ahead + 1 < NumDays
                   THEN StartMenu(days_ahead + 1)
                   ELSE /\ data' = r /\ last_update' = "ok" /\ cyc' = "idle"
                        /\ UNCHANGED <<clientVars, days_ahead, fetched>>
         ELSE UpdateFailed
    /\ outages' = outages \cup Outage
    /\ cyclog' = Tally(cyclog)
    /\ UNCHANGED <<today, started, calls, service, reading>>

\* Midnight passes while the cycle is between two fetches.
Midnight ==
    /\ cyc # "idle" /\ pc = "idle"
    /\ today < started + MaxTicks
    /\ today' = today + 1
    /\ UNCHANGED <<clientVars, cyc, days_ahead, building, data, last_update, fetched,
                   started, outages, cyclog, calls, service, reading>>

\* What call.data.get("order_id") may be.
OrderIds == {None, "", "o1"}

\* handle_cancel_order: without an order id it logs and returns; otherwise
\* it evaluates api_client.cancel_order, an attribute BessaAPIClient does
\* not have, and the AttributeError leaves the handler.
CancelOrder(order_id) ==
    IF ~Truthy(order_id) THEN "missing order_id" ELSE "AttributeError"

\* The cancel_order service is called after a refresh; it is registered
\* once the first refresh has succeeded.  The model follows a cycle either
\* by service calls or by sensor reads.
HandleCancelOrder ==
    /\ cyc = "idle" /\ pc = "idle" /\ data.present
    /\ last_update # "none" /\ reading = NoReading
    /\ \E order_id \in OrderIds : service' = CancelOrder(order_id)
    /\ UNCHANGED <<clientVars, today, cyc, days_ahead, building, data, last_update,
                   fetched, started, outages, cyclog, calls, reading>>

\* The snapshot has been published and an order sensor is read.
PublishedRead ==
    /\ cyc = "idle" /\ last_update = "ok" /\ service = "none"
    /\ \E n \in Offsets : reading' = SensorReading(data, today, n)
    /\ UNCHANGED <<clientVars, today, cyc, days_ahead, building, data, last_update,
                   fetched, started, outages, cyclog, calls, service>>

CycleNext ==
    \/ CycleStart
    \/ PublishedRead
    \/ CycleOrdersDone
    \/ CycleMenuDone
    \/ Midnight
    \/ HandleCancelOrder
    \/ LoginResponse
    \/ OrdersResponse
    \/ MenuResponse

SpecCycle == CycleInit /\ [][CycleNext]_vars

\* --------------------------------------------- two calls on one client
\* The calls that have a 401 branch.
RetryingOps == {"get_today_orders", "get_menu"}
\* The keys the login hands out, and the statuses of the responses.
ConcKeys == {"k1", "k2"}
ConcLogins == {200, 500}
ConcStatuses == {200, 401, 500}

\* A client that holds a token or none, and two callers about to call.
ConcInit ==
    /\ token \in {None, "k1"}
    /\ pc = "idle" /\ op = "none" /\ date = None /\ depth = 0
    /\ sent = <<>> /\ recv = <<>> /\ all_orders = <<>>
    /\ result = NoResult /\ logged = <<>>
    /\ HostInit

\* The call of caller p runs its first statement: with no token it awaits
\* authenticate(), otherwise it sends its request with the stored token.
Enter(p, o, d, tok) ==
    LET e == Entry(o, tok, <<>>) IN
    calls' = [calls EXCEPT ![p].pc = e.pc, ![p].op = o, ![p].depth = d,
                           ![p].sent_with = IF e.pc = "data" THEN tok ELSE None]

\* Caller p calls get_today_orders or get_menu.
ConcCall(p) ==
    /\ calls[p].pc = "idle"
    /\ \E o \in RetryingOps : Enter(p, o, 0, token)
    /\ UNCHANGED <<clientVars, today, cyc, days_ahead, building, data, last_update,
                   fetched, started, outages, cyclog, service, reading>>

\* The login response of caller p arrives: authenticate() stores the key,
\* and the call sends its request with the stored token or ends.
ConcLoginResponse(p) ==
    /\ calls[p].pc = "login"
    /\ \E st \in ConcLogins :
       \E key \in (IF st = 200 THEN ConcKeys ELSE {None}) :
         LET a == Authenticate(st, key, token) IN
         /\ token' = a.token
         /\ calls' = [calls EXCEPT ![p].pc = IF a.ok THEN "data" ELSE "done",
                                    ![p].sent_with = IF a.ok THEN a.token ELSE None]
    /\ UNCHANGED <<pc, op, date, depth, sent, recv, all_orders, result, logged,
                   today, cyc, days_ahead, building, data, last_update,
                   fetched, started, outages, cyclog, service, reading>>

\* The response to the request of caller p arrives.  On 401 the stored
\* token is replaced and the call calls itself.
ConcDataResponse(p) ==
    /\ calls[p].pc = "data"
    /\ \E st \in (IF calls[p].depth < MaxDepth THEN ConcStatuses ELSE ConcStatuses \ {401}) :
         IF st = 401
           THEN /\ token' = TokenOn401(token)
                /\ LET e == Entry(calls[p].op, token', <<>>) IN
                   calls' = [calls EXCEPT ![p].pc = e.pc,
                                          ![p].depth = @ + 1,
                                          ![p].for401 = calls[p].sent_with,
                                          ![p].cleared = token,
                                          ![p].sent_with = IF e.pc = "data" THEN token' ELSE None]
           ELSE /\ calls' = [calls EXCEPT ![p].pc = "done"]
                /\ UNCHANGED token
    /\ UNCHANGED <<pc, op, date, depth, sent, recv, all_orders, result, logged,
                   today, cyc, days_ahead, building, data, last_update,
                   fetched, started, outages, cyclog, service, reading>>

ConcNext ==
    \/ \E p \in Procs : ConcCall(p)
    \/ \E p \in Procs : ConcLoginResponse(p)
    \/ \E p \in Procs : ConcDataResponse(p)

SpecConc == ConcInit /\ [][ConcNext]_vars

\* ------------------------------------------------ reading the request log
AuthenticationError == "AuthenticationError"

\* The requests of the call that are not logins: its data requests and,
\* for get_today_orders, the follow-up page requests.
Answered == 1..Len(recv)
IsLogin(i) == sent[i].kind = "login"
IsData(i) == sent[i].kind = DataKind(op)
DataRequests == {i \in 1..Len(sent) : IsData(i)}
Got401 == \E i \in Answered : IsData(i) /\ recv[i].status = 401

\* A login response after which authenticate() reports failure: any status
\* but 200/201, an exception, or a body without a usable key.
LoginFailed(r) == ~((r.status = 200 \/ r.status = 201) /\ r.key # None /\ r.key # "")

\* A token that is absent, empty or whitespace-only.
Blank(tok) == tok \in {None, "", " "}

Retrying == op \in {"get_today_orders", "get_menu"}
Finished == pc = "idle" /\ op # "none"

\* The results of the answered orders requests from index i on, in order.
RECURSIVE PagesFrom(_)
PagesFrom(i) ==
    IF i > Len(recv) THEN <<>>
    ELSE (IF IsLogin(i) THEN <<>> ELSE recv[i].results) \o PagesFrom(i + 1)

\* ------------------------------------------------------------------ C1
\* C1: a call of get_today_orders or get_menu that receives 401 retries at
\* most once: no call ever sends its data request more than twice.
C1_AtMostTwoDataRequests ==
    Retrying => Cardinality(DataRequests) <= 2

C3_AuthErrorIffLoginFailed ==
    op = "get_today_orders" =>
      /\ \A i \in Answered :
           (IsLogin(i) /\ LoginFailed(recv[i])) =>
             /\ i = Len(sent)
             /\ pc = "idle"
             /\ result.kind = AuthenticationError
      /\ (pc = "idle" /\ result.kind = AuthenticationError) =>
             /\ IsLogin(Len(sent))
             /\ LoginFailed(recv[Len(sent)])
             /\ ~Truthy(token)

C3_Witness ==
    /\ op = "get_today_orders" /\ pc = "idle"
    /\ result.kind = AuthenticationError
    /\ Len(sent) = 2 /\ sent[1] = DataReq(op, "k1") /\ recv[1].status = 401
    /\ recv[2].status = 400

\* ------------------------------------------------------------------ C4
\* C4: in get_today_orders and in get_menu, a 401 followed by a failed
\* re-authentication ends the call with AuthenticationError raised to the
\* caller.
C4_AuthErrorAfter401 ==
    (Retrying /\ Finished /\ Got401 /\ IsLogin(Len(sent)) /\ LoginFailed(Last(recv)))
      => result.kind = AuthenticationError

\* ------------------------------------------------------------------ C5
\* C5: get_order_for_date never leaves the stored token equal to the token
\* a 401 response has just rejected.
C5_OrderForDateClearsOn401 ==
    (op = "get_order_for_date" /\ recv # <<>> /\ Last(recv).status = 401)
      => token # sent[Len(recv)].tok

\* ------------------------------------------------------------------ C6
\* The orders requests of the call: the first request and the page requests.
OrderRequests == {i \in 1..Len(sent) : ~IsLogin(i)}
AllPages200 ==
    /\ op = "get_today_orders" /\ Finished
    /\ OrderRequests # {}
    /\ \A i \in OrderRequests : recv[i].status = 200

\* C6: when every page of the chain answers 200, get_today_orders returns
\* the concatenation of the pages' results in page order, it follows every
\* next link up to the page that has none, and it requests each page once.
C6_AllPagesConcatenated ==
    AllPages200 =>
      /\ result.kind = "return" /\ result.keys = {"orders"}
      /\ result.orders = PagesFrom(1)
      /\ Last(recv).next = 0
      /\ \A i \in OrderRequests :
           recv[i].next # 0 => (i + 1 \in OrderRequests /\ sent[i + 1].url = recv[i].next)
      /\ \A i, j \in OrderRequests : i # j => sent[i].url # sent[j].url
      /\ {sent[i].url : i \in OrderRequests} = 1..Cardinality(OrderRequests)

C6_Witness ==
    /\ AllPages200
    /\ Cardinality(OrderRequests) = 3
    /\ result.orders = <<1, 2, 3, 1>>

\* ------------------------------------------------------------------ C7
\* C7: an order list returned after a 200 first page is complete: every
\* next link the server handed out was followed and answered 200, so no
\* failed follow-up page leaves a shortened list as the result.
C7_PaginationExhausted ==
    ( /\ op = "get_today_orders" /\ Finished /\ result.kind = "return"
      /\ \E i \in Answered : IsData(i) /\ recv[i].status = 200 )
    => \A i \in Answered :
         recv[i].next # 0 => (i < Len(recv) /\ recv[i + 1].status = 200)

\* ------------------------------------------------------------------ C8
\* C8: a response to the data request of get_today_orders or get_menu that
\* is neither 200 nor 401 ends the call with the empty result, raises
\* nothing, sends nothing more and leaves the stored token as it was.
SoftFailure(r) == r.status # 200 /\ r.status # 401 /\ r.status # EXC
EmptyResultOf(o) ==
    IF o = "get_today_orders"
      THEN [kind |-> "return", ok |-> FALSE, keys |-> {"orders"},
            orders |-> <<>>, categories |-> <<>>, items |-> <<>>]
      ELSE [kind |-> "return", ok |-> FALSE, keys |-> {"categories", "items"},
            orders |-> <<>>, categories |-> <<>>, items |-> <<>>]

C8_SoftFailureEmpty ==
    [][ (Retrying /\ pc = "data" /\ Len(recv') = Len(recv) + 1 /\ SoftFailure(Last(recv')))
          => /\ pc' = "idle"
             /\ result' = EmptyResultOf(op)
             /\ sent' = sent
             /\ token' = token ]_vars

C8_Witness ==
    /\ op = "get_today_orders" /\ Finished
    /\ sent = <<DataReq(op, "k1")>> /\ recv[1].status = 500
    /\ result = EmptyResultOf(op) /\ token = "k1"

\* ------------------------------------------------------------------ C9
\* C9: an exception raised by a data request (or by parsing its response)
\* reaches the caller of get_today_orders and of get_order_for_date, while
\* get_menu returns the empty categories/items result; the stored token is
\* unchanged either way.
C9_ExceptionAsymmetry ==
    [][ (pc \in {"data", "page"} /\ Len(recv') = Len(recv) + 1 /\ Last(recv').status = EXC)
          => /\ pc' = "idle"
             /\ token' = token
             /\ sent' = sent
             /\ IF op = "get_menu"
                  THEN result' = EmptyResultOf(op)
                  ELSE result'.kind = "Exception" ]_vars

C9_Witness ==
    /\ op = "get_menu" /\ Finished
    /\ sent = <<DataReq(op, "k1")>> /\ recv[1].status = EXC
    /\ result = EmptyResultOf(op) /\ token = "k1"

\* ----------------------------------------------------------------- C10
\* C10: every data request carries an Authorization token that is neither
\* absent, empty nor whitespace-only, whatever keys the login returned.
C10_NoBlankTokenSent ==
    \A i \in 1..Len(sent) : ~IsLogin(i) => ~Blank(sent[i].tok)

\* ----------------------------------------------------------------- C11
\* C11: authenticate never raises; it returns success exactly when the
\* login answered 200 or 201 with a (non-empty) key in its body, and then
\* that key is the stored token; every other status, a missing key and an
\* exception while sending or parsing give the return value False.
C11_AuthenticateResult ==
    (op = "authenticate" /\ pc = "idle") =>
      /\ result.kind = "return" /\ result.keys = {}
      /\ result.ok = ~LoginFailed(recv[1])
      /\ result.ok => token = recv[1].key

C11_Witness ==
    /\ op = "authenticate" /\ pc = "idle"
    /\ recv[1].status = 201 /\ recv[1].key = "k2"
    /\ result.ok /\ token = "k2"

\* ----------------------------------------------------------------- C12
\* The error fields authenticate looks for, in their priority order.
Priority == <<"non_field_errors", "email", "password">>
Pieces(msg) == {msg[i] : i \in 1..Len(msg)}
MessagesOf(f) == {ErrorMessages(f)[i] : i \in 1..Len(ErrorMessages(f))}

\* C12: on a 400 login response with at least one of the three error
\* fields, the logged message is "Login failed: " followed by the joined
\* messages of the first field present in the order non_field_errors,
\* email, password; no message of another field is in it; the call fails.
C12_FirstErrorFieldOnly ==
    \A i \in Answered :
      (IsLogin(i) /\ recv[i].status = 400) =>
        /\ pc = "idle" /\ i = Len(sent)
        /\ (op = "authenticate" => result.kind = "return" /\ ~result.ok)
        /\ \A k \in 1..Len(Priority) :
             ( /\ Priority[k] \in recv[i].errors
               /\ \A h \in 1..(k - 1) : Priority[h] \notin recv[i].errors )
             => /\ Head(logged) = "Login failed: "
                /\ Tail(logged) = Join(ErrorMessages(Priority[k]))
                /\ \A g \in ErrorFields \ {Priority[k]} :
                     MessagesOf(g) \cap Pieces(logged) = {}

C12_Witness ==
    /\ op = "authenticate" /\ pc = "idle"
    /\ recv[1].status = 400 /\ recv[1].errors = {"email", "password", "detail"}
    /\ logged = <<"Login failed: ", "e1">>
    /\ ~result.ok

\* ----------------------------------------------------------------- C16
\* The items of a menu body in category order and item order.
RECURSIVE RawItems(_)
RawItems(results) ==
    IF results = <<>> THEN <<>> ELSE Head(results).items \o RawItems(Tail(results))

\* The value the claim gives "available" for each available_amount.
ClaimedAvailable(amount) ==
    CASE amount.t = "int"                       -> JInt(amount.v)
      [] amount.t = "str" /\ amount.s = <<"3">> -> JInt(3)
      [] amount.t = "str" /\ amount.s = <<"0">> -> JInt(0)
      [] OTHER                                  -> JNull

\* C16: every item get_menu returns has available = the integer value of
\* its available_amount when that is an integer or a string that parses as
\* one (0 included), and null when it is null or unparseable.
C16_AvailableParsed ==
    (op = "get_menu" /\ pc = "idle" /\ Last(recv).status = 200) =>
      LET raw == RawItems(Last(recv).results) IN
      /\ Len(result.items) = Len(raw)
      /\ \A k \in 1..Len(raw) :
           result.items[k].available = ClaimedAvailable(raw[k].available_amount)

\* ----------------------------------------------------------------- C13
\* C13: the order the day projection returns, for any snapshot and any
\* offset 0..6, never has code 9 as the first entry of its state history.
Target == DateStr(today + reading.days_ahead)
SensorHasRead == reading.kind = "sensor"
Returned == reading.order.order

C13_NeverCancelled ==
    (SensorHasRead /\ reading.order.found) =>
      ~(OrderStates(Returned) # <<>> /\ Head(OrderStates(Returned)) = 9)

\* An order is returned although a cancelled order of the same day comes
\* before it in the list.
C13_Witness ==
    /\ SensorHasRead /\ reading.order.found
    /\ reading.order.index = 2
    /\ Head(OrderStates(data.orders[1])) = 9
    /\ SubSeq(OrderDate(data.orders[1]), 1, 10) = Target

\* ----------------------------------------------------------------- C14
\* C14: the day projection returns the first order of the list whose date
\* prefix is today+offset and whose latest state entry exists and is not
\* 9, and returns none only when no order of the list is such an order.
Prefix10(cs) == [i \in 1..(IF Len(cs) < 10 THEN Len(cs) ELSE 10) |-> cs[i]]
Eligible(o) ==
    /\ Prefix10(OrderDate(o)) = Target
    /\ Len(OrderStates(o)) > 0
    /\ OrderStates(o)[1] # 9

C14_FirstEligible ==
    SensorHasRead =>
      IF reading.order.found
        THEN /\ data.present
             /\ reading.order.index \in 1..Len(data.orders)
             /\ Returned = data.orders[reading.order.index]
             /\ Eligible(Returned)
             /\ \A i \in 1..(reading.order.index - 1) : ~Eligible(data.orders[i])
        ELSE ~data.present \/ \A i \in 1..Len(data.orders) : ~Eligible(data.orders[i])

\* The first of two eligible orders of the day is returned.
C14_Witness ==
    /\ SensorHasRead /\ reading.order.found
    /\ \E i, j \in 1..Len(data.orders) :
         /\ i < j /\ reading.order.index = i
         /\ data.orders[i] # data.orders[j]
         /\ Eligible(data.orders[j])

\* ----------------------------------------------------------------- C15
\* C15: whether an order matches a target date depends only on the first
\* 10 characters of its date, in _is_order_for_date and in
\* _get_order_for_day: orders whose dates are at least 10 long and share
\* the prefix match the same targets, whatever their time of day.
SameDay(o1, o2) ==
    /\ Len(OrderDate(o1)) >= 10 /\ Len(OrderDate(o2)) >= 10
    /\ Prefix10(OrderDate(o1)) = Prefix10(OrderDate(o2))
Kept(o) == \E k \in 1..Len(reading.orders) : reading.orders[k] = o

C15_DatePrefixOnly ==
    /\ reading.kind = "filter" =>
         \A i, j \in 1..Len(data.orders) :
           SameDay(data.orders[i], data.orders[j]) =>
             /\ Kept(data.orders[i]) <=> Kept(data.orders[j])
             /\ Kept(data.orders[i]) <=> Prefix10(OrderDate(data.orders[i])) = Target
    /\ SensorHasRead =>
         /\ reading.order.found => Prefix10(OrderDate(Returned)) = Target
         /\ \A i, j \in 1..Len(data.orders) :
              SameDay(data.orders[i], data.orders[j]) =>
                /\ order_date_matches(data.orders[i], Target)
                      <=> order_date_matches(data.orders[j], Target)
                /\ order_date_matches(data.orders[i], Target)
                      <=> Prefix10(OrderDate(data.orders[i])) = Target

\* The filter keeps two orders of one day whose times of day differ.
C15_Witness ==
    /\ reading.kind = "filter"
    /\ \E i, j \in 1..Len(data.orders) :
         /\ SameDay(data.orders[i], data.orders[j])
         /\ OrderDate(data.orders[i]) # OrderDate(data.orders[j])
         /\ Kept(data.orders[i]) /\ Kept(data.orders[j])

\* ----------------------------------------------------------------- C17
\* C17: every snapshot a refresh cycle produces has the orders and exactly
\* seven menu entries, for the seven consecutive dates from the date of
\* the cycle on, fetched orders first and then offsets 0..6, also when
\* midnight passes between two menu fetches.
CycleDate(i) == DateStr(started + i - 1)

C17_SevenConsecutiveDates ==
    last_update = "ok" =>
      /\ data.present
      /\ Len(data.menus) = NumDays
      /\ \A i \in 1..NumDays : data.menus[i].date = CycleDate(i)
      /\ Len(fetched) = NumDays + 1
      /\ fetched[1].kind = "orders"
      /\ \A i \in 1..NumDays :
           fetched[i + 1].kind = "menu" /\ fetched[i + 1].date = CycleDate(i)

\* ----------------------------------------------------------------- C18
\* C18: the published snapshot changes only to the complete result of a
\* cycle whose orders fetch and seven menu fetches all returned; a cycle
\* in which a fetch raises ends with UpdateFailed and leaves the published
\* snapshot as it was.
FetchEnded == cyc # "idle" /\ pc = "idle"
FetchRaised == FetchEnded /\ result.kind # "return"

C18_OnlyCompleteSnapshots ==
    [][ /\ data' # data =>
             /\ cyc = "menu" /\ cyc' = "idle" /\ last_update' = "ok"
             /\ ~FetchRaised
             /\ data'.present
             /\ Len(data'.menus) = NumDays
             /\ Len(fetched') = NumDays + 1
             /\ SubSeq(data'.menus, 1, NumDays - 1) = building.menus
             /\ data'.orders = building.orders
        /\ (FetchRaised /\ cyc' # cyc) =>
             /\ cyc' = "idle" /\ last_update' = "UpdateFailed"
             /\ data' = data
        /\ (last_update' = "UpdateFailed" /\ last_update # "UpdateFailed") =>
             FetchRaised /\ data' = data ]_vars

\* A cycle failed in one of its menu fetches and the earlier snapshot is
\* still the published one.
C18_Witness ==
    /\ last_update = "UpdateFailed"
    /\ Len(fetched) > 2
    /\ data = PreviousSnapshot

\* ----------------------------------------------------------------- C19
\* C19: the cancel-order action never raises to its caller, whatever the
\* order id of the service call.
C19_CancelNeverRaises == service # "AttributeError"

\* ----------------------------------------------------------------- C20
\* C20: a menu fetch of a cycle that ends in a status other than 200 and
\* 401, or in a transport exception, does not abort the cycle: its date
\* gets the empty list and the cycle goes on to the next date or, after
\* the last one, publishes.  A menu fetch makes the cycle fail only by an
\* authentication failure.
MenuSoftFailed ==
    /\ cyc = "menu" /\ pc = "idle"
    /\ sent[Len(recv)].kind = "menu"
    /\ recv[Len(recv)].status # 200 /\ recv[Len(recv)].status # 401
EntryOf(snap, d) ==
    {snap.menus[k].items : k \in {j \in 1..Len(snap.menus) : snap.menus[j].date = d}}
IsPrefix(s1, s2) == Len(s1) <= Len(s2) /\ SubSeq(s2, 1, Len(s1)) = s1

C20_MenuOutageTolerated ==
    [][ /\ (MenuSoftFailed /\ <<cyc, days_ahead>>' # <<cyc, days_ahead>>) =>
             /\ last_update' # "UpdateFailed"
             /\ EntryOf(building', date) = {<<>>}
             /\ IF Len(fetched) < NumDays + 1
                  THEN /\ cyc' = "menu" /\ pc' # "idle"
                       /\ Len(fetched') = Len(fetched) + 1
                       /\ fetched'[Len(fetched')].kind = "menu"
                  ELSE last_update' = "ok" /\ data' = building'
        /\ (cyc = "menu" /\ cyc' = "menu") => IsPrefix(building.menus, building'.menus)
        /\ (cyc = "menu" /\ last_update' = "UpdateFailed" /\ last_update # "UpdateFailed") =>
             result.kind = AuthenticationError ]_vars

\* A published snapshot of a cycle in which one menu fetch ended in an
\* unexpected status and another one in a transport exception.
C20_Witness ==
    /\ last_update = "ok"
    /\ outages = {"status", "exception"}
    /\ Len(data.menus) = NumDays

\* ----------------------------------------------------------------- C21
\* C21: when two calls interleave, a 401 for a request sent with token T
\* clears the stored token only if the stored token is still T; it never
\* discards a newer token.
C21_Late401KeepsNewerToken ==
    \A p \in Procs :
      calls[p].cleared # "-" =>
        calls[p].cleared = None \/ calls[p].cleared = calls[p].for401

\* ----------------------------------------------------------------- C22
\* C22: in any sequence of get_today_orders, get_order_for_date and
\* get_menu calls a login request is sent only while no token is held, at
\* the start of a call or right after a 401; a call that starts with a
\* token and gets no 401 sends no login request.
AuthedOps == {"get_today_orders", "get_order_for_date", "get_menu"}
LoginsOf(log) == {i \in 1..Len(log) : log[i].kind = "login"}
SendsLogin == sent' # sent /\ sent' # <<>> /\ Last(sent').kind = "login"

C22_LoginOnlyWithoutToken ==
    /\ [][ (op' \in AuthedOps /\ SendsLogin) =>
             /\ ~Truthy(token')
             /\ \/ pc = "idle" /\ ~Truthy(token)
                \/ pc = "data" /\ Last(recv').status = 401 ]_vars
    /\ [][ (pc = "idle" /\ pc' # "idle" /\ op' \in AuthedOps /\ Truthy(token)) =>
             LoginsOf(sent') = {} ]_vars
    /\ []((op \in AuthedOps /\ ~Got401) => LoginsOf(sent) \subseteq {1})

\* Calls that started with a token and got no 401 have ended without a
\* login request.
C22_Witness ==
    /\ Finished /\ op = "get_order_for_date"
    /\ ~Got401 /\ LoginsOf(sent) = {} /\ Len(sent) = 1
    /\ Truthy(token)

\* The same for one refresh cycle: as long as none of its requests got a
\* 401, its fetches have sent at most one login request.
CycleAtMostOneLogin ==
    (~cyclog.got401 /\ ~(cyc # "idle" /\ Got401)) =>
      cyclog.logins + (IF cyc # "idle" THEN Cardinality(LoginsOf(sent)) ELSE 0) <= 1

\* ----------------------------------------------------------------- C23
\* C23: a cycle whose orders request ends in a status other than 200 and
\* 401 does not fail for that: it goes on with an empty order list, and if
\* its menu fetches complete it publishes a snapshot without orders,
\* whatever the previous snapshot held, so every order sensor reads
\* "No order".
OrdersSoftFailed == cyclog.orders = "soft"

C23_OrdersOutagePublishesEmpty ==
    /\ OrdersSoftFailed => cyc = "menu" \/ last_update \in {"ok", "UpdateFailed"}
    /\ (OrdersSoftFailed /\ cyc = "menu") => building.present /\ building.orders = <<>>
    /\ (OrdersSoftFailed /\ last_update = "UpdateFailed") =>
         /\ Len(fetched) > 1
         /\ result.kind = AuthenticationError
    /\ (OrdersSoftFailed /\ last_update = "ok") =>
         /\ data.present /\ data.orders = <<>>
         /\ Len(data.menus) = NumDays
         /\ reading.kind = "sensor" =>
              ~reading.order.found /\ reading.state = <<"No order">>

\* The previous snapshot held an order for today; after the cycle today's
\* sensor reads "No order".
C23_Witness ==
    /\ OrdersSoftFailed /\ last_update = "ok"
    /\ cyclog.previous = <<2>>
    /\ today = 0
    /\ reading.kind = "sensor" /\ reading.days_ahead = 0
    /\ reading.state = <<"No order">>

\* ----------------------------------------------------------------- C24
\* C24: the day projection skips an order of the day as cancelled exactly
\* when _is_cancelled is true of it, also when its state history is empty.
OfTheDay(o) == Prefix10(OrderDate(o)) = Target
Skipped ==
    {i \in 1..Len(data.orders) :
       OfTheDay(data.orders[i]) /\ (reading.order.found => i < reading.order.index)}

C24_SkippedIffCancelled ==
    (SensorHasRead /\ data.present) =>
      /\ \A i \in Skipped : is_cancelled(data.orders[i])
      /\ reading.order.found => ~is_cancelled(Returned)

\* ----------------------------------------------------------------- C25
\* C25: authenticate returns success exactly when the client then holds a
\* non-empty token taken from that login response, and a failed
\* authenticate leaves a held token held and creates none.
AuthenticateEnds == op = "authenticate" /\ pc = "login" /\ pc' = "idle"

C25_AuthenticateKeepsToken ==
    [][ AuthenticateEnds =>
          /\ result'.ok <=> (Truthy(token') /\ token' = Last(recv').key)
          /\ ~result'.ok => (Truthy(token') <=> Truthy(token)) ]_vars

\* ----------------------------------------------------------------- C26
\* C26: the item list of get_menu is the concatenation of the categories'
\* items in category order and item order, as long as all of them
\* together, each item tagged with the name of its category.
RECURSIVE ItemsBefore(_, _)
ItemsBefore(categories, c) ==
    IF c <= 1 THEN 0 ELSE ItemsBefore(categories, c - 1) + Len(categories[c - 1].items)
MenuReturned ==
    /\ op = "get_menu" /\ pc = "idle" /\ result.kind = "return"
    /\ sent[Len(recv)].kind = "menu" /\ Last(recv).status = 200

C26_ItemsFlattened ==
    MenuReturned =>
      LET categories == Last(recv).results IN
      /\ Len(result.items) = ItemsBefore(categories, Len(categories) + 1)
      /\ \A c \in 1..Len(categories) : \A j \in 1..Len(categories[c].items) :
           LET item == result.items[ItemsBefore(categories, c) + j] IN
           /\ item.id = categories[c].items[j].id
           /\ item.category = categories[c].name

\* A menu of two categories with one and two items has been flattened.
C26_Witness ==
    /\ MenuReturned
    /\ Len(Last(recv).results) = 2
    /\ Len(result.items) = 3
    /\ result.items[1].category # result.items[3].category

\* ----------------------------------------------------------------- C27
\* C27 as stated: the state is "No order" exactly when no order matches;
\* for a matched order it is the comma-joined list of its non-empty item
\* names, and "Ordered" when it has items but every name is empty.
HasName(i) == i # "" /\ i # "<None>"
Names(o) == SelectSeq(OrderItems(o), HasName)
CommaJoined(names) ==
    [i \in 1..(IF names = <<>> THEN 0 ELSE 2 * Len(names) - 1) |->
       IF i % 2 = 1 THEN names[(i + 1) \div 2] ELSE ", "]

C27_StateAsStated ==
    SensorHasRead =>
      /\ reading.state = <<"No order">> <=> ~reading.order.found
      /\ reading.order.found =>
           reading.state = IF OrderItems(Returned) # <<>> /\ Names(Returned) = <<>>
                             THEN <<"Ordered">>
                             ELSE CommaJoined(Names(Returned))

\* C27 amended: the state is "No order" exactly when no order matches; for
\* a matched order it is the comma-joined list of its non-empty item names,
\* and "Ordered" when it has no non-empty item name, be it that every name
\* is empty or that the order has no items.
C27_StateOfTheDay ==
    SensorHasRead =>
      /\ reading.state = <<"No order">> <=> ~reading.order.found
      /\ reading.order.found =>
           reading.state = IF Names(Returned) = <<>>
                             THEN <<"Ordered">>
                             ELSE CommaJoined(Names(Returned))

\* An order with an empty name between two names is shown as the two names.
C27_Witness ==
    /\ SensorHasRead /\ reading.order.found
    /\ Len(OrderItems(Returned)) = 3
    /\ reading.state = <<"Schnitzel", ", ", "Salad">>

\* ----------------------------------------------------------------- C28
\* C28: the pickup time of a matched order is characters 12 to 16 of its
\* date string when that has at least 16 characters, and none when it has
\* 11 or fewer.
C28_PickupTime ==
    (SensorHasRead /\ reading.order.found) =>
      LET order_date == OrderDate(Returned) IN
      /\ Len(order_date) >= 16 =>
           /\ reading.pickup_time.some
           /\ reading.pickup_time.chars = [i \in 1..5 |-> order_date[11 + i]]
      /\ Len(order_date) <= 11 => ~reading.pickup_time.some

\* "2025-06-10T12:15:00Z" gives "12:15".
C28_Witness ==
    /\ SensorHasRead /\ reading.order.found
    /\ OrderDate(Returned) = Date_0610_1215
    /\ reading.pickup_time.some
    /\ reading.pickup_time.chars = <<"1", "2", ":", "1", "5">>

\* ----------------------------------------------------------------- C29
\* C29: 4, 5 and 9 are named "Ordered", "Confirmed" and "Cancelled", every
\* other code c that is present is named "State c", and only a missing
\* code is named "Unknown".
C29_StateNames ==
    reading.kind = "state_name" =>
      LET c == reading.code IN
      /\ reading.state_name =
           (CASE c = JInt(4) -> <<"Ordered">>
              [] c = JInt(5) -> <<"Confirmed">>
              [] c = JInt(9) -> <<"Cancelled">>
              [] c.t = "int" /\ c.v \notin {4, 5, 9} -> <<"State ">> \o StrInt(c.v)
              [] OTHER -> <<"Unknown">>)
      /\ reading.state_name = <<"Unknown">> => c = JNull
====
